---- MODULE Spec2Model ----
(***************************************************************************)
(* Model of the process supervisor of react-mcp (src/index.js): the        *)
(* runningProcesses registry, startProcess, the launch presets, the        *)
(* status / stop / list handlers and the exit-time cleanup.                *)
(*                                                                         *)
(* Text values (commands, paths, ids, messages, captured output) are       *)
(* sequences of tokens, so that template strings are concatenations and    *)
(* "the message names the id" is a sub-sequence test.  A JS value that may *)
(* be null / undefined is a sequence of length 0 (absent) or 1 (present).  *)
(***************************************************************************)
EXTENDS Integers, Sequences, FiniteSets, TLC

(* ------------------------------ bounds -------------------------------- *)

\* number of child processes spawned in one run
MaxSpawn == 2
\* number of data events (stdout and stderr together) delivered in one run
MaxChunks == 1
\* number of distinct later readings of the wall clock
MaxTime == 0

(* ------------------------------ values -------------------------------- *)

Null == <<>>
Some(x) == <<x>>
Min(a, b) == IF a < b THEN a ELSE b

\* JS truthiness of an optional text argument: undefined and "" are falsy
Falsy(opt) == opt = Null \/ opt[1] = <<>>

\* String.prototype.includes on token sequences
Includes(s, sub) ==
  \E i \in 0..(Len(s) - Len(sub)) : SubSeq(s, i + 1, i + Len(sub)) = sub

\* String.prototype.substring(from, to), indices counted from 0
Substring(s, from, to) == SubSeq(s, from + 1, Min(to, Len(s)))

RECURSIVE Join(_, _)
\* Array.prototype.join(sep)
Join(arr, sep) ==
  IF arr = <<>> THEN <<>>
  ELSE IF Len(arr) = 1 THEN arr[1]
  ELSE arr[1] \o sep \o Join(Tail(arr), sep)

(* --------------------------- environment ------------------------------ *)

\* values new Date() may return, in milliseconds: readings 1500 ms apart
Times == { t * 1500 : t \in 0..MaxTime }
\* Date.prototype.toISOString
toISOString(t) == <<"T+", t, "ms">>

\* os.homedir() and process.cwd()
homedir == <<"/home">>
cwd == <<"/srv">>
\* path.join(a, b) for a non-empty a and a plain name b
pathJoin(a, b) == a \o <<"/">> \o b

\* The file system the handlers look at: directories, and package.json
\* files with their parsed "dependencies" (absent, or a set of names).
Directories ==
  { homedir, cwd, pathJoin(homedir, <<"app">>), pathJoin(homedir, <<"lib">>),
    pathJoin(homedir, <<"empty">>) }
PackageJsons ==
  [ p \in { pathJoin(cwd, <<"package.json">>),
            pathJoin(pathJoin(homedir, <<"app">>), <<"package.json">>),
            pathJoin(pathJoin(homedir, <<"lib">>), <<"package.json">>) } |->
      IF p = pathJoin(pathJoin(homedir, <<"app">>), <<"package.json">>)
        THEN [dependencies |-> Some({"react", "react-dom"})]
      ELSE IF p = pathJoin(cwd, <<"package.json">>)
        THEN [dependencies |-> Some({"zod"})]
      ELSE [dependencies |-> Some({"lodash"})] ]
\* fs.existsSync
existsSync(p) == p \in Directories \/ p \in DOMAIN PackageJsons

\* Math.random().toString(36): "0" for 0, otherwise "0." and digits
RandomStrings == { <<"0">>, <<"0", ".", "a">>, <<"0", ".", "b">> }

\* exit codes a child may exit with
ExitCodes == {0}
\* -errno that ChildProcess reports as exitCode when spawn fails (ENOENT)
SpawnErrno == 0 - 2

\* chunks (byte buffers) a child may write to a pipe
HelloBytes == <<104, 101, 108, 108, 111, 10>>
ChunkBuffers == { HelloBytes }

RECURSIVE toString(_)
\* Buffer.prototype.toString(): UTF-8 decoding of one buffer; an incomplete
\* or invalid sequence decodes to U+FFFD
toString(buf) ==
  IF buf = <<>> THEN <<>>
  ELSE LET b == buf[1] IN
    IF b = 104 THEN <<"h">> \o toString(Tail(buf))
    ELSE IF b = 101 THEN <<"e">> \o toString(Tail(buf))
    ELSE IF b = 108 THEN <<"l">> \o toString(Tail(buf))
    ELSE IF b = 111 THEN <<"o">> \o toString(Tail(buf))
    ELSE IF b = 10 THEN <<"\n">> \o toString(Tail(buf))
    ELSE IF b = 195 /\ Len(buf) > 1 /\ buf[2] = 169
      THEN <<"e'">> \o toString(Tail(Tail(buf)))
    ELSE <<"U+FFFD">> \o toString(Tail(buf))

(* ------------------------------- state -------------------------------- *)

VARIABLES
  runningProcesses,  \* the Map, as its entries in insertion order
  child,             \* the ChildProcess objects, in spawn order
  output,            \* per child: startProcess's local `output`
  errorOutput,       \* per child: startProcess's local `errorOutput`
  received,          \* per child: the buffers delivered on stdout / stderr
  launches,          \* the processId every startProcess call returned, in order
  server,            \* "running" or "exited"
  request,           \* the last tool call or event handled
  result             \* what it returned

vars ==
  << runningProcesses, child, output, errorOutput, received, launches,
     server, request, result >>

Handles == 1..Len(child)

\* no process.nextTick callback is pending and the supervisor is alive
Ready ==
  /\ server = "running"
  /\ \A h \in Handles : ~(child[h].handle /\ ~child[h].pid)

(* ---------------------------- the registry ---------------------------- *)

\* Map.prototype.has
Has(processId) ==
  \E i \in 1..Len(runningProcesses) : runningProcesses[i].processId = processId

\* Map.prototype.get, for a key the map has
Get(processId) ==
  runningProcesses[CHOOSE i \in 1..Len(runningProcesses) :
                     runningProcesses[i].processId = processId]

\* Map.prototype.set: a new key is appended, an existing key keeps its
\* place and gets the new value
MapSet(entries, processId, rec) ==
  IF \E i \in 1..Len(entries) : entries[i].processId = processId
    THEN [ i \in 1..Len(entries) |->
             IF entries[i].processId = processId THEN rec ELSE entries[i] ]
    ELSE Append(entries, rec)

(* ---------------------------- startProcess ---------------------------- *)

\* child_process.spawn: the ChildProcess object.  `handle` is held while the
\* OS process has not been reported ended.  A failed spawn gives an object
\* without pid whose 'error' event is emitted on the next tick.
spawn(spawned) ==
  [ pid        |-> spawned,
    handle     |-> TRUE,
    exitCode   |-> Null,
    signalCode |-> Null,
    killed     |-> FALSE ]

\* outcomes of spawn in a working directory
SpawnOutcomes(dir) == IF dir \in Directories THEN {TRUE, FALSE} ELSE {FALSE}

\* Math.random().toString(36).substring(2, 15)
mintProcessId(rnd) == Substring(rnd, 2, 15)

\* the record startProcess stores: `output` and `errorOutput` are the values
\* its two locals have when the record is built
processRecord(h, command, args, dir, out, err, t, processId) ==
  [ process     |-> h,
    command     |-> command,
    args        |-> args,
    cwd         |-> dir,
    output      |-> out,
    errorOutput |-> err,
    startTime   |-> t,
    processId   |-> processId ]

startProcess(command, args, dir, rnd, spawned, t) ==
  LET h == Len(child) + 1
      processId == mintProcessId(rnd)
      processInfo == processRecord(h, command, args, dir, output'[h],
                                   errorOutput'[h], t, processId)
  IN
  /\ child' = Append(child, spawn(spawned))
  /\ output' = Append(output, <<>>)
  /\ errorOutput' = Append(errorOutput, <<>>)
  /\ received' = Append(received, [stdout |-> <<>>, stderr |-> <<>>])
  /\ runningProcesses' = MapSet(runningProcesses, processId, processInfo)
  /\ launches' = Append(launches, processId)

\* a handler that returns without reaching startProcess
NoLaunch ==
  UNCHANGED << runningProcesses, child, output, errorOutput, received, launches >>

(* --------------------------- launch presets --------------------------- *)

handleCreateReactApp(name, template, directory) ==
  LET baseDir == IF Falsy(directory) THEN homedir ELSE directory[1]
      projectDir == pathJoin(baseDir, name)
      createCommand ==
        IF Falsy(template)
          THEN <<"npx create-react-app ">> \o name
          ELSE <<"npx create-react-app ">> \o name \o <<" --template ">> \o template[1]
      caught(msg) == [error |-> <<"Error creating React app: ">> \o msg]
  IN
  /\ Ready
  /\ request' = [tool |-> "create-react-app", name |-> name, template |-> template,
                 directory |-> directory]
  /\ IF name = <<>>
       THEN NoLaunch /\ result' = caught(<<"Project name is required">>)
     ELSE IF existsSync(projectDir)
       THEN NoLaunch
            /\ result' = caught(<<"Directory ">> \o projectDir \o <<" already exists">>)
     ELSE /\ Len(child) < MaxSpawn
          /\ \E rnd \in RandomStrings, spawned \in SpawnOutcomes(baseDir), t \in Times :
               /\ startProcess(createCommand, <<>>, baseDir, rnd, spawned, t)
               /\ result' =
                    [ message    |-> <<"Creating React app \"">> \o name
                                       \o <<"\" in ">> \o projectDir,
                      processId  |-> mintProcessId(rnd),
                      projectDir |-> projectDir ]

\* the check reduced to "package.json has dependencies"
hasReactDependencyLoose(packageJson) == packageJson.dependencies # Null

\* packageJson.dependencies && packageJson.dependencies.react
hasReactDependency(packageJson) ==
  packageJson.dependencies # Null /\ "react" \in packageJson.dependencies[1]

handleRunReactApp(projectPath) ==
  LET packageJsonPath == pathJoin(projectPath, <<"package.json">>)
      packageJson == PackageJsons[packageJsonPath]
      caught(msg) == [error |-> <<"Error running React app: ">> \o msg]
  IN
  /\ Ready
  /\ request' = [tool |-> "run-react-app", projectPath |-> projectPath]
  /\ IF projectPath = <<>>
       THEN NoLaunch /\ result' = caught(<<"Project path is required">>)
     ELSE IF ~existsSync(projectPath)
       THEN NoLaunch
            /\ result' = caught(<<"Directory ">> \o projectPath \o <<" does not exist">>)
     ELSE IF ~existsSync(packageJsonPath)
       THEN NoLaunch
            /\ result' = caught(<<"Not a valid React app: package.json not found in ">>
                                  \o projectPath)
     ELSE IF ~hasReactDependency(packageJson)
       THEN NoLaunch
            /\ result' = caught(<<"Not a valid React app: react dependency not found in package.json">>)
     ELSE /\ Len(child) < MaxSpawn
          /\ \E rnd \in RandomStrings, spawned \in SpawnOutcomes(projectPath),
                t \in Times :
               /\ startProcess(<<"npm">>, << <<"start">> >>, projectPath, rnd, spawned, t)
               /\ result' =
                    [ message   |-> <<"Starting React development server in ">>
                                      \o projectPath,
                      processId |-> mintProcessId(rnd),
                      note      |-> <<"The development server should be accessible at http://localhost:3000">> ]

handleInstallPackage(packageName, directory, dev) ==
  LET workingDir == IF Falsy(directory) THEN cwd ELSE directory[1]
      packageJsonPath == pathJoin(workingDir, <<"package.json">>)
      installCommand ==
        IF dev = Some(TRUE)
          THEN <<"npm install ">> \o packageName \o <<" --save-dev">>
          ELSE <<"npm install ">> \o packageName
      caught(msg) == [error |-> <<"Error installing package: ">> \o msg]
  IN
  /\ Ready
  /\ request' = [tool |-> "install-package", packageName |-> packageName,
                 directory |-> directory, dev |-> dev]
  /\ IF packageName = <<>>
       THEN NoLaunch /\ result' = caught(<<"Package name is required">>)
     ELSE IF ~existsSync(workingDir)
       THEN NoLaunch
            /\ result' = caught(<<"Directory ">> \o workingDir \o <<" does not exist">>)
     ELSE IF ~existsSync(packageJsonPath)
       THEN NoLaunch
            /\ result' = caught(<<"Not a valid Node.js project: package.json not found in ">>
                                  \o workingDir)
     ELSE /\ Len(child) < MaxSpawn
          /\ \E rnd \in RandomStrings, spawned \in SpawnOutcomes(workingDir),
                t \in Times :
               /\ startProcess(installCommand, <<>>, workingDir, rnd, spawned, t)
               /\ result' =
                    [ message   |-> <<"Installing ">> \o packageName \o <<" in ">>
                                      \o workingDir,
                      processId |-> mintProcessId(rnd),
                      command   |-> installCommand ]

(* ----------------------- the blocking executor ------------------------ *)

\* how a command run by exec may end: its exit code, what it wrote to stdout
\* and to stderr
ExecOutcomes ==
  { [code |-> 0, stdout |-> <<"hello", "\n">>, stderr |-> <<>>],
    [code |-> 0, stdout |-> <<>>, stderr |-> <<"warning", "\n">>],
    [code |-> 1, stdout |-> <<>>, stderr |-> <<"No such file", "\n">>] }

\* executeCommand resolving whatever exec calls back with
executeCommandResolving(ran) ==
  [rejected |-> FALSE, stdout |-> ran.stdout, stderr |-> ran.stderr]

\* executeCommand: exec calls back with an error exactly when the command
\* did not exit with code 0; the promise then rejects with the plain object
\* {error, stderr}, which has no `message`; otherwise it resolves
executeCommand(ran) ==
  IF ran.code # 0
    THEN [rejected |-> TRUE, message |-> Null, stderr |-> Some(ran.stderr)]
    ELSE [rejected |-> FALSE, stdout |-> ran.stdout, stderr |-> ran.stderr]

\* a value interpolated in a template string: undefined reads "undefined"
interpolate(opt) == IF opt = Null THEN <<"undefined">> ELSE opt[1]

\* what handleRunCommand returns when the command, if it gets to run, ends
\* as `ran`
runCommand(command, directory, ran) ==
  LET workingDir == IF Falsy(directory) THEN cwd ELSE directory[1]
      settled == executeCommand(ran)
      \* the catch block: `error.message` and `error.stderr || ""`
      caught(error) ==
        [ error  |-> <<"Error executing command: ">> \o interpolate(error.message),
          stderr |-> IF Falsy(error.stderr) THEN <<>> ELSE error.stderr[1] ]
      Error(msg) == [message |-> Some(msg), stderr |-> Null]
  IN
  IF command = <<>>
    THEN caught(Error(<<"Command is required">>))
  ELSE IF ~existsSync(workingDir)
    THEN caught(Error(<<"Directory ">> \o workingDir \o <<" does not exist">>))
  ELSE IF settled.rejected
    THEN caught(settled)
  ELSE [ command   |-> command,
         directory |-> workingDir,
         output    |-> settled.stdout,
         stderr    |-> settled.stderr ]

handleRunCommand(command, directory, ran) ==
  /\ Ready
  /\ request' = [tool |-> "run-command", command |-> command,
                 directory |-> directory]
  /\ result' = runCommand(command, directory, ran)
  /\ NoLaunch

(* ----------------------- status, stop and list ------------------------ *)

\* `${processInfo.command} ${processInfo.args.join(" ")}`
commandLine(processInfo) ==
  processInfo.command \o <<" ">> \o Join(processInfo.args, <<" ">>)

\* `${Math.floor((new Date() - startTime) / 1000)} seconds`
runTime(processInfo, t) == << (t - processInfo.startTime) \div 1000, " seconds" >>

\* processInfo.process.exitCode === null
isRunning(processInfo) == child[processInfo.process].exitCode = Null

\* getProcessOutput with a not-found message that leaves the id out
getProcessOutputUnnamed(processId, t) ==
  IF processId # <<>> /\ Has(processId)
    THEN LET processInfo == Get(processId) IN
         [ processId   |-> processId,
           command     |-> commandLine(processInfo),
           directory   |-> processInfo.cwd,
           isRunning   |-> isRunning(processInfo),
           exitCode    |-> child[processInfo.process].exitCode,
           output      |-> processInfo.output,
           errorOutput |-> processInfo.errorOutput,
           startTime   |-> toISOString(processInfo.startTime),
           runTime     |-> runTime(processInfo, t) ]
    ELSE [error |-> <<"Error getting process output: ", "Process not found">>]

\* getProcessOutput reading the listeners' buffers while the process runs
\* and the stored strings once it has exited
getProcessOutputLive(processId, t) ==
  IF processId # <<>> /\ Has(processId)
    THEN LET processInfo == Get(processId)
             running == isRunning(processInfo)
         IN
         [ processId   |-> processId,
           command     |-> commandLine(processInfo),
           directory   |-> processInfo.cwd,
           isRunning   |-> running,
           exitCode    |-> child[processInfo.process].exitCode,
           output      |-> IF running THEN output[processInfo.process]
                           ELSE processInfo.output,
           errorOutput |-> IF running THEN errorOutput[processInfo.process]
                           ELSE processInfo.errorOutput,
           startTime   |-> toISOString(processInfo.startTime),
           runTime     |-> runTime(processInfo, t) ]
    ELSE IF processId = <<>>
      THEN [error |-> <<"Error getting process output: ", "Process ID is required">>]
    ELSE [error |-> <<"Error getting process output: ", "Process with ID ">>
                      \o processId \o <<" not found">>]

\* what handleGetProcessOutput returns for processId when the clock reads t
getProcessOutput(processId, t) ==
  LET processInfo == Get(processId)
      caught(msg) == [error |-> <<"Error getting process output: ">> \o msg]
  IN
  IF processId = <<>>
    THEN caught(<<"Process ID is required">>)
  ELSE IF ~Has(processId)
    THEN caught(<<"Process with ID ">> \o processId \o <<" not found">>)
  ELSE [ processId   |-> processId,
         command     |-> commandLine(processInfo),
         directory   |-> processInfo.cwd,
         isRunning   |-> isRunning(processInfo),
         exitCode    |-> child[processInfo.process].exitCode,
         output      |-> processInfo.output,
         errorOutput |-> processInfo.errorOutput,
         startTime   |-> toISOString(processInfo.startTime),
         runTime     |-> runTime(processInfo, t) ]

handleGetProcessOutput(processId, t) ==
  /\ Ready
  /\ request' = [tool |-> "get-process-output", processId |-> processId]
  /\ result' = getProcessOutput(processId, t)
  /\ NoLaunch

\* ChildProcess.prototype.kill(): with a live handle the signal is sent
\* ("ok", killed becomes true) or the error is emitted and, unhandled,
\* thrown ("eperm"); without one nothing happens and false is returned
KillOutcomes(c) == IF c.handle /\ c.pid THEN {"ok", "eperm"} ELSE {"none"}
\* kill() recording an exit at once when it sends the signal
killAndReap(c, outcome) ==
  IF outcome = "ok" THEN [c EXCEPT !.killed = TRUE, !.exitCode = Some(143)] ELSE c
kill(c, outcome) == IF outcome = "ok" THEN [c EXCEPT !.killed = TRUE] ELSE c

\* what handleStopProcess returns
stopProcess(processId, outcome) ==
  LET processInfo == Get(processId)
      caught(msg) == [error |-> <<"Error stopping process: ">> \o msg]
  IN
  IF processId = <<>>
    THEN caught(<<"Process ID is required">>)
  ELSE IF ~Has(processId)
    THEN caught(<<"Process with ID ">> \o processId \o <<" not found">>)
  ELSE IF outcome = "eperm"
    THEN caught(<<"kill EPERM">>)
  ELSE [ message   |-> <<"Process ">> \o processId \o <<" stopped">>,
         command   |-> commandLine(processInfo),
         directory |-> processInfo.cwd ]

handleStopProcess(processId, outcome) ==
  /\ Ready
  /\ request' = [tool |-> "stop-process", processId |-> processId]
  /\ IF processId # <<>> /\ Has(processId)
       THEN /\ outcome \in KillOutcomes(child[Get(processId).process])
            /\ child' = [child EXCEPT ![Get(processId).process] = kill(@, outcome)]
       ELSE /\ outcome = "none"
            /\ child' = child
  /\ result' = stopProcess(processId, outcome)
  /\ UNCHANGED << runningProcesses, output, errorOutput, received, launches >>

\* what handleListProcesses returns when the clock reads t
listProcesses(t) ==
  [ processes |->
      [ i \in 1..Len(runningProcesses) |->
          LET processInfo == runningProcesses[i] IN
          [ processId |-> processInfo.processId,
            command   |-> commandLine(processInfo),
            directory |-> processInfo.cwd,
            isRunning |-> isRunning(processInfo),
            exitCode  |-> child[processInfo.process].exitCode,
            startTime |-> toISOString(processInfo.startTime),
            runTime   |-> runTime(processInfo, t) ] ],
    count |-> Len(runningProcesses) ]

handleListProcesses(t) ==
  /\ Ready
  /\ request' = [tool |-> "list-processes"]
  /\ result' = listProcesses(t)
  /\ NoLaunch

(* ------------------------- events of a child -------------------------- *)

\* data events delivered so far, over all children and both streams
ChunkCount(rcv, n) ==
  IF n = 0 THEN 0 ELSE Len(rcv[n].stdout) + Len(rcv[n].stderr)
TotalChunks ==
  LET count[n \in 0..Len(received)] ==
        IF n = 0 THEN 0 ELSE count[n - 1] + ChunkCount(received, n)
  IN count[Len(received)]

\* the stdout listener appending to one buffer shared by all children
stdoutDataShared(h, data) ==
  /\ Ready
  /\ child[h].pid
  /\ TotalChunks < MaxChunks
  /\ output' = [k \in DOMAIN output |-> output[k] \o toString(data)]
  /\ received' = [received EXCEPT ![h].stdout = Append(@, data)]
  /\ UNCHANGED << runningProcesses, child, errorOutput, launches, server,
                  request, result >>

\* childProcess.stdout.on("data"): output += data.toString()
stdoutData(h, data) ==
  /\ Ready
  /\ child[h].pid
  /\ TotalChunks < MaxChunks
  /\ output' = [output EXCEPT ![h] = @ \o toString(data)]
  /\ received' = [received EXCEPT ![h].stdout = Append(@, data)]
  /\ UNCHANGED << runningProcesses, child, errorOutput, launches, server,
                  request, result >>

\* childProcess.stderr.on("data"): errorOutput += data.toString()
stderrData(h, data) ==
  /\ Ready
  /\ child[h].pid
  /\ TotalChunks < MaxChunks
  /\ errorOutput' = [errorOutput EXCEPT ![h] = @ \o toString(data)]
  /\ received' = [received EXCEPT ![h].stderr = Append(@, data)]
  /\ UNCHANGED << runningProcesses, child, output, launches, server,
                  request, result >>

\* how the OS may report the end of a child: it exited with a code, or a
\* SIGTERM it was sent killed it
WaitStatuses(c) ==
  { [code |-> Some(code), signal |-> Null] : code \in ExitCodes }
    \cup (IF c.killed THEN { [code |-> Null, signal |-> Some("SIGTERM")] } ELSE {})

\* ChildProcess's onexit: a signal death sets signalCode and leaves exitCode
\* null, an exit sets exitCode; the handle is released
onexit(c, wstatus) ==
  IF wstatus.signal # Null
    THEN [c EXCEPT !.handle = FALSE, !.signalCode = wstatus.signal]
    ELSE [c EXCEPT !.handle = FALSE, !.exitCode = wstatus.code]

\* the OS reports that child h has ended
exitEvent(h, wstatus) ==
  /\ Ready
  /\ child[h].handle /\ child[h].pid
  /\ wstatus \in WaitStatuses(child[h])
  /\ child' = [child EXCEPT ![h] = onexit(@, wstatus)]
  /\ UNCHANGED << runningProcesses, output, errorOutput, received, launches,
                  server, request, result >>

(* ------------------------ the supervisor's exit ----------------------- *)

RECURSIVE cleanup(_, _, _)
\* process.on("exit"): kill() on the process of every entry, each in its own
\* try / catch.  `failing` are the children whose kill() throws; the value
\* is the children after the loop, the ids logged, and the children kill()
\* was called on.
cleanup(entries, failing, acc) ==
  IF entries = <<>> THEN acc
  ELSE LET h == Head(entries).process
           outcome == IF ~(acc.child[h].handle /\ acc.child[h].pid) THEN "none"
                      ELSE IF h \in failing THEN "eperm" ELSE "ok"
       IN cleanup(Tail(entries), failing,
                  [ child  |-> [acc.child EXCEPT ![h] = kill(@, outcome)],
                    logged |-> IF outcome = "eperm"
                                 THEN Append(acc.logged, Head(entries).processId)
                                 ELSE acc.logged,
                    called |-> acc.called \cup {h} ])

\* process.exit() or the end of the event loop: the "exit" listeners run
exit(failing) ==
  LET done == cleanup(runningProcesses, failing,
                      [child |-> child, logged |-> <<>>, called |-> {}])
  IN
  /\ failing \subseteq { h \in Handles : child[h].handle /\ child[h].pid }
  /\ child' = done.child
  /\ server' = "exited"
  /\ request' = [event |-> "exit"]
  /\ result' = [logged |-> done.logged, called |-> done.called]
  /\ UNCHANGED << runningProcesses, output, errorOutput, received, launches >>

\* process.on("SIGINT") and process.on("SIGTERM"): process.exit(0)
sigint(failing) == server = "running" /\ exit(failing)
sigterm(failing) == server = "running" /\ exit(failing)

\* the event loop runs out of work: no child is left to wait for
normalExit ==
  /\ Ready
  /\ \A h \in Handles : ~child[h].handle
  /\ exit({})

\* next tick after a failed spawn: onexit with -errno, then the 'error'
\* event, which has no listener and so ends the supervisor
spawnError(h, failing) ==
  /\ server = "running"
  /\ child[h].handle /\ ~child[h].pid
  /\ LET done == cleanup(runningProcesses, failing,
                         [ child  |-> [child EXCEPT ![h].handle = FALSE,
                                                    ![h].exitCode = Some(SpawnErrno)],
                           logged |-> <<>>, called |-> {} ])
     IN /\ failing \subseteq { k \in Handles : child[k].handle /\ child[k].pid }
        /\ child' = done.child
        /\ result' = [logged |-> done.logged, called |-> done.called]
  /\ server' = "exited"
  /\ request' = [event |-> "exit"]
  /\ UNCHANGED << runningProcesses, output, errorOutput, received, launches >>

(* ------------------------ the call-tool handler ----------------------- *)

\* the zod schemas of the tools that parse their arguments: per field, the
\* type z.string() / z.boolean() and whether it is .optional()
Schemas ==
  [ t \in { "create-react-app", "run-react-app", "run-command",
            "get-process-output", "stop-process", "install-package" } |->
      IF t = "create-react-app"
        THEN << [key |-> "name", type |-> "string", optional |-> FALSE],
                [key |-> "template", type |-> "string", optional |-> TRUE],
                [key |-> "directory", type |-> "string", optional |-> TRUE] >>
      ELSE IF t = "run-react-app"
        THEN << [key |-> "projectPath", type |-> "string", optional |-> FALSE] >>
      ELSE IF t = "run-command"
        THEN << [key |-> "command", type |-> "string", optional |-> FALSE],
                [key |-> "directory", type |-> "string", optional |-> TRUE] >>
      ELSE IF t = "install-package"
        THEN << [key |-> "packageName", type |-> "string", optional |-> FALSE],
                [key |-> "directory", type |-> "string", optional |-> TRUE],
                [key |-> "dev", type |-> "boolean", optional |-> TRUE] >>
      ELSE << [key |-> "processId", type |-> "string", optional |-> FALSE] >> ]

\* the tools of the switch; list-processes parses nothing
ToolNames == DOMAIN Schemas \cup {"list-processes"}

\* the JSON type of args[key]; args gives the type of every key it has
typeOf(args, key) == IF key \in DOMAIN args THEN args[key] ELSE "undefined"

\* Schema.parse(args): the issues of the ZodError, in field order; none when
\* the arguments parse
zodIssues(schema, args) ==
  LET Fails(field) ==
        /\ typeOf(args, field.key) # field.type
        /\ ~(field.optional /\ typeOf(args, field.key) = "undefined")
  IN SelectSeq(schema, Fails)

\* `${e.path.join(".")}: ${e.message}` for one issue
issueText(field, args) ==
  IF typeOf(args, field.key) = "undefined"
    THEN <<field.key, ": ", "Required">>
    ELSE <<field.key, ": ", "Expected ", field.type, ", received ",
           typeOf(args, field.key)>>

\* the Error the call-tool handler throws instead of returning a result:
\* for a name outside the switch, and for arguments that do not parse
thrown(name, args) ==
  IF name \notin ToolNames
    THEN Some(<<"Unknown tool: ", name>>)
  ELSE IF name \in DOMAIN Schemas /\ zodIssues(Schemas[name], args) # <<>>
    THEN LET issues == zodIssues(Schemas[name], args) IN
         Some(<<"Invalid arguments: ">>
                \o Join([i \in 1..Len(issues) |-> issueText(issues[i], args)],
                        <<", ">>))
  ELSE Null

\* a call-tool request that ends in a throw: no handler runs
callToolThrows(name, args) ==
  /\ Ready
  /\ thrown(name, args) # Null
  /\ request' = [call |-> name, arguments |-> args]
  /\ result' = [thrown |-> thrown(name, args)[1]]
  /\ NoLaunch

(* --------------------------- specification ---------------------------- *)

\* arguments the tools are called with
CreateReactAppArgs ==
  { [name |-> <<>>, template |-> Null, directory |-> Null],
    [name |-> <<"app">>, template |-> Null, directory |-> Null],
    [name |-> <<"new">>, template |-> Null, directory |-> Null],
    [name |-> <<"new">>, template |-> Some(<<"typescript">>),
     directory |-> Some(<<"/missing">>)] }
RunReactAppArgs ==
  { [projectPath |-> p] :
      p \in { <<>>, <<"/missing">>, pathJoin(homedir, <<"app">>),
              pathJoin(homedir, <<"lib">>), pathJoin(homedir, <<"empty">>) } }
InstallPackageArgs ==
  { [packageName |-> <<>>, directory |-> Null, dev |-> Null],
    [packageName |-> <<"lodash">>, directory |-> Null, dev |-> Some(TRUE)],
    [packageName |-> <<"lodash">>, directory |-> Some(<<"/missing">>), dev |-> Null],
    [packageName |-> <<"lodash">>, directory |-> Some(pathJoin(homedir, <<"empty">>)),
     dev |-> Null] }
ProcessIds == { mintProcessId(rnd) : rnd \in RandomStrings } \cup { <<"zz">> }
RunCommandArgs ==
  { [command |-> <<>>, directory |-> Null],
    [command |-> <<"ls">>, directory |-> Null],
    [command |-> <<"ls">>, directory |-> Some(<<"/missing">>)] }
\* calls with a tool name and the JSON types of the arguments given
ThrowingCalls ==
  { [name |-> "run-react-app", arguments |-> [projectPath |-> "number"]],
    [name |-> "stop-process", arguments |-> [id |-> "string"]],
    [name |-> "install-package",
     arguments |-> [packageName |-> "string", dev |-> "string"]],
    [name |-> "delete-file", arguments |-> [filePath |-> "string"]] }

Init ==
  /\ runningProcesses = <<>>
  /\ child = <<>>
  /\ output = <<>>
  /\ errorOutput = <<>>
  /\ received = <<>>
  /\ launches = <<>>
  /\ server = "running"
  /\ request = [event |-> "start"]
  /\ result = [none |-> TRUE]

CreateReactApp ==
  \E args \in CreateReactAppArgs :
    /\ handleCreateReactApp(args.name, args.template, args.directory)
    /\ server' = server
RunReactApp ==
  \E args \in RunReactAppArgs :
    handleRunReactApp(args.projectPath) /\ server' = server
InstallPackage ==
  \E args \in InstallPackageArgs :
    /\ handleInstallPackage(args.packageName, args.directory, args.dev)
    /\ server' = server
GetProcessOutput ==
  \E processId \in ProcessIds, t \in Times :
    handleGetProcessOutput(processId, t) /\ server' = server
StopProcess ==
  \E processId \in ProcessIds, outcome \in {"ok", "eperm", "none"} :
    handleStopProcess(processId, outcome) /\ server' = server
ListProcesses == \E t \in Times : handleListProcesses(t) /\ server' = server
RunCommand ==
  \E args \in RunCommandArgs, ran \in ExecOutcomes :
    handleRunCommand(args.command, args.directory, ran) /\ server' = server
CallToolThrows ==
  \E call \in ThrowingCalls :
    callToolThrows(call.name, call.arguments) /\ server' = server
StdoutData == \E h \in Handles, data \in ChunkBuffers : stdoutData(h, data)
StderrData == \E h \in Handles, data \in ChunkBuffers : stderrData(h, data)
ExitEvent ==
  \E h \in Handles : \E wstatus \in WaitStatuses(child[h]) : exitEvent(h, wstatus)
SpawnError == \E h \in Handles, failing \in SUBSET Handles : spawnError(h, failing)
Sigint == \E failing \in SUBSET Handles : sigint(failing)
Sigterm == \E failing \in SUBSET Handles : sigterm(failing)
NormalExit == normalExit

Next ==
  \/ CreateReactApp
  \/ RunReactApp
  \/ InstallPackage
  \/ GetProcessOutput
  \/ StopProcess
  \/ ListProcesses
  \/ RunCommand
  \/ CallToolThrows
  \/ StdoutData
  \/ StderrData
  \/ ExitEvent
  \/ SpawnError
  \/ Sigint
  \/ Sigterm
  \/ NormalExit

Spec == Init /\ [][Next]_vars

(* ------------------------------ claims -------------------------------- *)

RECURSIVE Decoded(_)
\* the text of a sequence of buffers: each decoded, in arrival order
Decoded(buffers) ==
  IF buffers = <<>> THEN <<>> ELSE toString(Head(buffers)) \o Decoded(Tail(buffers))

\* the ids that launches have returned so far
ReturnedIds == { launches[i] : i \in 1..Len(launches) }
\* a clock reading for the status reads the claims make
AnyTime == CHOOSE t \in Times : TRUE
\* a result that carries an `error` field
IsError(r) == "error" \in DOMAIN r
\* child h was spawned and has been reported ended
Ended(h) == child[h].pid /\ ~child[h].handle

\* C1: for every registered process, the output and errorOutput that
\* get-process-output returns are the concatenation, in arrival order, of the
\* chunks received so far on its stdout and stderr.
C1_OutputIsConcatenation ==
  \A i \in 1..Len(runningProcesses) :
    LET r == getProcessOutput(runningProcesses[i].processId, AnyTime)
        h == runningProcesses[i].process
    IN ~IsError(r) =>
         /\ r.output = Decoded(received[h].stdout)
         /\ r.errorOutput = Decoded(received[h].stderr)

\* C2: once stop-process has signalled a registered running process and the
\* OS has reported that process ended, get-process-output reports
\* isRunning = false for its id (a finite form of "eventually": after the
\* exit event nothing changes the reported value any more).
C2_StoppedIsReportedNotRunning ==
  \A i \in 1..Len(runningProcesses) :
    LET r == getProcessOutput(runningProcesses[i].processId, AnyTime)
        h == runningProcesses[i].process
    IN (child[h].killed /\ Ended(h) /\ ~IsError(r)) => r.isRunning = FALSE

\* C3: after N launches that returned, list-processes returns exactly N
\* records, count = N, and the ids returned are pairwise distinct.
C3_ListCountsLaunches ==
  LET listed == listProcesses(AnyTime) IN
  /\ listed.count = Len(launches)
  /\ Len(listed.processes) = Len(launches)
  /\ \A i, j \in 1..Len(launches) : i # j => launches[i] # launches[j]

\* C4: a record stored in the registry is neither removed nor replaced by
\* any later step: its id stays registered with the same command, args,
\* working directory, start time and process handle.
C4_RecordsAreKept ==
  [][ \A i \in 1..Len(runningProcesses) :
        LET was == runningProcesses[i] IN
        /\ Has(was.processId)'
        /\ Get(was.processId)'.process = was.process
        /\ Get(was.processId)'.command = was.command
        /\ Get(was.processId)'.args = was.args
        /\ Get(was.processId)'.cwd = was.cwd
        /\ Get(was.processId)'.startTime = was.startTime
    ]_vars

\* C5: for every processId, once a status read reports isRunning = false,
\* every later read reports isRunning = false with the same exitCode; and a
\* read reports an exitCode exactly when it reports isRunning = false.
C5_ExitIsFinal ==
  [][ \A processId \in ProcessIds :
        LET before == getProcessOutput(processId, AnyTime)
            after == getProcessOutput(processId, AnyTime)'
        IN /\ (~IsError(before) /\ ~before.isRunning) =>
                (~IsError(after) /\ ~after.isRunning
                   /\ after.exitCode = before.exitCode)
           /\ ~IsError(after) => (after.isRunning <=> after.exitCode = Null)
    ]_vars

\* a step that sends no signal, starts no process and leaves the registry alone
NothingTouched == child' = child /\ runningProcesses' = runningProcesses
\* the step ends with `tool` as the last tool called
Called(tool) == "tool" \in DOMAIN request' /\ request'.tool = tool

\* C6: get-process-output and stop-process with an id that no launch has
\* returned give a result whose `error` names the id, send no signal and
\* leave the registry unchanged.
C6_UnknownIdIsAnError ==
  [][ /\ (Called("get-process-output") /\ request'.processId \notin ReturnedIds) =>
           \A t \in Times :
             handleGetProcessOutput(request'.processId, t) =>
               (IsError(result') /\ Includes(result'.error, request'.processId)
                  /\ NothingTouched)
      /\ (Called("stop-process") /\ request'.processId \notin ReturnedIds) =>
           \A outcome \in {"ok", "eperm", "none"} :
             handleStopProcess(request'.processId, outcome) =>
               (IsError(result') /\ Includes(result'.error, request'.processId)
                  /\ NothingTouched)
    ]_vars

\* C6 witness: stop-process has just answered for an id no launch returned,
\* with an error, while a launched process is running.
C6_Witness ==
  /\ "tool" \in DOMAIN request
  /\ request.tool = "stop-process"
  /\ request.processId \notin ReturnedIds
  /\ request.processId # <<>>
  /\ IsError(result)
  /\ \E h \in Handles : child[h].pid /\ child[h].handle /\ ~child[h].killed

\* C7: stop-process on a registered id whose process has already ended
\* returns a success result, changes neither the children nor the registry,
\* and returns the same result when called again.
C7_StopAfterExitIsIdempotent ==
  [][ \A processId \in ProcessIds :
        (/\ Called("stop-process")
         /\ request'.processId = processId
         /\ Has(processId)
         /\ Ended(Get(processId).process)) =>
          \A outcome \in {"ok", "eperm", "none"} :
            handleStopProcess(processId, outcome) =>
              (~IsError(result') /\ NothingTouched
                 /\ stopProcess(processId, "none")' = result')
    ]_vars

\* the directory a launching call has its process work in
CreateBaseDir(args) == IF Falsy(args.directory) THEN homedir ELSE args.directory[1]
InstallDir(args) == IF Falsy(args.directory) THEN cwd ELSE args.directory[1]

\* C8: a launching call whose working directory does not exist returns an
\* error, starts no process and adds no record.
C8_MissingDirectoryIsRejected ==
  [][ /\ (/\ Called("create-react-app")
          /\ ~existsSync(CreateBaseDir(request'))
          /\ handleCreateReactApp(request'.name, request'.template,
                                  request'.directory)) =>
           (IsError(result') /\ NothingTouched)
      /\ (/\ Called("run-react-app")
          /\ ~existsSync(request'.projectPath)
          /\ handleRunReactApp(request'.projectPath)) =>
           (IsError(result') /\ NothingTouched)
      /\ (/\ Called("install-package")
          /\ ~existsSync(InstallDir(request'))
          /\ handleInstallPackage(request'.packageName, request'.directory,
                                  request'.dev)) =>
           (IsError(result') /\ NothingTouched)
    ]_vars

\* a directory without package.json, or whose package.json has no react
\* dependency
NoManifest(p) == p \in Directories /\ ~existsSync(pathJoin(p, <<"package.json">>))
LacksReact(p) ==
  /\ existsSync(pathJoin(p, <<"package.json">>))
  /\ LET deps == PackageJsons[pathJoin(p, <<"package.json">>)].dependencies
     IN deps = Null \/ "react" \notin deps[1]

\* C9: create-react-app on a target directory that exists, and run-react-app
\* on a directory with no package.json or no react dependency, return an
\* error, launch nothing, and leave the list-processes count and every
\* record as they were.
C9_RejectedPresetLaunchesNothing ==
  [][ /\ (/\ Called("create-react-app")
          /\ existsSync(pathJoin(CreateBaseDir(request'), request'.name))
          /\ handleCreateReactApp(request'.name, request'.template,
                                  request'.directory)) =>
           (IsError(result') /\ NothingTouched
              /\ listProcesses(AnyTime)' = listProcesses(AnyTime))
      /\ (/\ Called("run-react-app")
          /\ NoManifest(request'.projectPath) \/ LacksReact(request'.projectPath)
          /\ handleRunReactApp(request'.projectPath)) =>
           (IsError(result') /\ NothingTouched
              /\ listProcesses(AnyTime)' = listProcesses(AnyTime))
    ]_vars

\* C9 witness: run-react-app has just been refused for a directory without
\* package.json while a process is registered.
C9_Witness ==
  /\ "tool" \in DOMAIN request
  /\ request.tool = "run-react-app"
  /\ NoManifest(request.projectPath)
  /\ IsError(result)
  /\ Len(runningProcesses) > 0

\* C10: when the supervisor has exited, kill() has been called on every
\* launched process that had not ended, whichever of the calls failed.
C10_CleanupReachesEveryLiveProcess ==
  server = "exited" =>
    \A h \in Handles : (child[h].pid /\ child[h].handle) => h \in result.called

\* the last request was a call-tool request that threw instead of returning
Threw(r) == "thrown" \in DOMAIN r
\* the arguments of the last call-tool request do not parse against the
\* schema of the tool it names
ShapeViolation(req) ==
  /\ "call" \in DOMAIN req
  /\ req.call \in DOMAIN Schemas
  /\ zodIssues(Schemas[req.call], req.arguments) # <<>>
\* the launch just made could not start its process
SpawnFailed == \E h \in Handles : child[h].handle /\ ~child[h].pid

\* C11: a call-tool request ends in a protocol-level error only when its
\* arguments violate the tool's schema; every other failure of a tool
\* invocation, a failed spawn included, is returned as a result with an
\* `error` field.
C11_OnlyShapeViolationsThrow ==
  /\ Threw(result) => ShapeViolation(request)
  /\ (server = "running" /\ SpawnFailed) => IsError(result)

\* C12: when the process of a launch cannot be started, the launch returns
\* an error result of shape {error, stderr} without a processId, and the
\* failure does not bring the supervisor down.
C12_SpawnErrorIsReturned ==
  \A h \in Handles :
    ~child[h].pid =>
      /\ server = "running"
      /\ child[h].handle =>
           /\ IsError(result)
           /\ "stderr" \in DOMAIN result
           /\ "processId" \notin DOMAIN result

\* the fields of run-command's success result
RunCommandSuccess == {"command", "directory", "output", "stderr"}

\* C13: run-command with a command that exits non-zero returns a result with
\* an `error` field and a `stderr` field equal to what the command wrote to
\* stderr, not the success shape; with a command that exits zero it returns
\* {command, directory, output, stderr} and no `error` field.
C13_RunCommandReflectsExit ==
  [][ (/\ Called("run-command")
       /\ request'.command # <<>>
       /\ existsSync(IF Falsy(request'.directory) THEN cwd
                     ELSE request'.directory[1])) =>
        \A ran \in ExecOutcomes :
          handleRunCommand(request'.command, request'.directory, ran) =>
            IF ran.code # 0
              THEN /\ IsError(result')
                   /\ "stderr" \in DOMAIN result'
                   /\ result'.stderr = ran.stderr
                   /\ DOMAIN result' # RunCommandSuccess
              ELSE /\ DOMAIN result' = RunCommandSuccess
                   /\ result'.output = ran.stdout
                   /\ result'.stderr = ran.stderr
    ]_vars

\* C13 witness: run-command has just returned the error shape carrying the
\* stderr of a command that ran and failed.
C13_Witness ==
  /\ "tool" \in DOMAIN request
  /\ request.tool = "run-command"
  /\ IsError(result)
  /\ "stderr" \in DOMAIN result
  /\ result.stderr # <<>>

\* C14: a launch returns its id while its process runs, and from then until
\* the exit event of that process get-process-output for the id reports
\* isRunning = true and no exitCode.
C14_LaunchedIsReportedRunning ==
  \A i \in 1..Len(runningProcesses) :
    LET r == getProcessOutput(runningProcesses[i].processId, AnyTime)
        h == runningProcesses[i].process
    IN (child[h].pid /\ child[h].handle) =>
         /\ runningProcesses[i].processId \in ReturnedIds
         /\ ~IsError(r)
         /\ r.isRunning = TRUE
         /\ r.exitCode = Null

\* a is a prefix of b
IsPrefix(a, b) == Len(a) <= Len(b) /\ SubSeq(b, 1, Len(a)) = a

\* what a status read is computed from: the registry, the ChildProcess
\* objects and the listeners' buffers
ReadState == << runningProcesses, child, output, errorOutput >>

\* C15: over any step that changes something a read is computed from, for
\* every id, the output and errorOutput that get-process-output returns
\* before the step are prefixes of those it returns after it, and equal to
\* them once it has reported isRunning = false.
C15_OutputOnlyGrows ==
  [][ ReadState' # ReadState =>
        \A processId \in ProcessIds :
          (Has(processId) /\ Has(processId)') =>
            LET before == getProcessOutput(processId, AnyTime)
                after == getProcessOutput(processId, AnyTime)'
            IN (~IsError(before) /\ ~IsError(after)) =>
                 /\ IsPrefix(before.output, after.output)
                 /\ IsPrefix(before.errorOutput, after.errorOutput)
                 /\ ~before.isRunning =>
                      /\ after.output = before.output
                      /\ after.errorOutput = before.errorOutput
    ]_vars

\* C15 witness: get-process-output has just answered isRunning = false for
\* a process that had written a chunk to stdout before it exited.
C15_Witness ==
  /\ "tool" \in DOMAIN request
  /\ request.tool = "get-process-output"
  /\ ~IsError(result)
  /\ ~result.isRunning
  /\ received[Get(request.processId).process].stdout # <<>>

\* a step that touches nothing of any process other than h: not its
\* ChildProcess, not its listeners' buffers, and not the record of it
Isolated(h) ==
  /\ \A k \in Handles \ {h} :
       /\ child'[k] = child[k]
       /\ output'[k] = output[k]
       /\ errorOutput'[k] = errorOutput[k]
       /\ received'[k] = received[k]
  /\ \A i \in 1..Len(runningProcesses) :
       runningProcesses[i].process # h =>
         /\ runningProcesses'[i] = runningProcesses[i]
         /\ child'[runningProcesses[i].process].exitCode
              = child[runningProcesses[i].process].exitCode

\* C16: a stdout chunk, a stderr chunk or the exit event of one process,
\* arriving in any order among those of the others, changes the output
\* buffer, the error buffer and the exitCode of no other process and of no
\* other process's record.
C16_EventsDoNotCross ==
  [][ << child, output, errorOutput, received >>'
        # << child, output, errorOutput, received >> =>
      \A h \in Handles :
        /\ (\E data \in ChunkBuffers : stdoutData(h, data)) => Isolated(h)
        /\ (\E data \in ChunkBuffers : stderrData(h, data)) => Isolated(h)
        /\ (\E wstatus \in WaitStatuses(child[h]) : exitEvent(h, wstatus)) =>
             Isolated(h)
    ]_vars

\* C16 witness: of two running processes with a record each, one has
\* received a chunk and the other has received none and has an empty buffer.
C16_Witness ==
  \E i, j \in 1..Len(runningProcesses) :
    LET h == runningProcesses[i].process
        k == runningProcesses[j].process
    IN /\ h # k
       /\ child[h].pid /\ child[k].pid
       /\ received[h].stdout # <<>>
       /\ output[h] # <<>>
       /\ received[k] = [stdout |-> <<>>, stderr |-> <<>>]
       /\ output[k] = <<>>

\* the step is a tool call that ends in an error result or in a throw
CallFailed ==
  /\ << request, result >>' # << request, result >>
  /\ IsError(result') \/ Threw(result')

\* C17: a tool invocation that fails, a launch whose process cannot be
\* started included, changes no record and no ChildProcess of another
\* invocation, sends no signal, and leaves the supervisor serving.
C17_FailuresAreContained ==
  [][ /\ CallFailed =>
           /\ runningProcesses' = runningProcesses
           /\ child' = child
           /\ server' = "running"
      /\ \A h \in Handles :
           (/\ child[h].handle /\ ~child[h].pid
            /\ \E failing \in SUBSET Handles : spawnError(h, failing)) =>
             /\ server' = "running"
             /\ runningProcesses' = runningProcesses
             /\ \A k \in Handles \ {h} : child'[k] = child[k]
    ]_vars

\* C18: stop-process on a running process leaves the exitCode of its
\* ChildProcess and the isRunning and exitCode a status read reports as they
\* were before the call; the exitCode of a running process changes only in
\* the step that delivers the exit event of that process.
C18_StopOnlySignals ==
  [][ /\ Called("stop-process") =>
           \A processId \in ProcessIds :
             (/\ request'.processId = processId
              /\ processId # <<>>
              /\ Has(processId)
              /\ child[Get(processId).process].pid
              /\ child[Get(processId).process].handle
              /\ \E outcome \in {"ok", "eperm"} :
                   handleStopProcess(processId, outcome)) =>
               LET h == Get(processId).process
                   before == getProcessOutput(processId, AnyTime)
                   after == getProcessOutput(processId, AnyTime)'
               IN /\ child'[h].exitCode = child[h].exitCode
                  /\ child'[h].handle = child[h].handle
                  /\ after.isRunning = before.isRunning
                  /\ after.exitCode = before.exitCode
      /\ child' # child =>
           \A h \in Handles :
             (child[h].pid /\ child[h].handle
                /\ child'[h].exitCode # child[h].exitCode) =>
               \E wstatus \in WaitStatuses(child[h]) : exitEvent(h, wstatus)
    ]_vars

\* C18 witness: stop-process has just returned for a running process: the
\* signal is sent, the exit event is not delivered yet and the exitCode is
\* still null.
C18_Witness ==
  /\ "tool" \in DOMAIN request
  /\ request.tool = "stop-process"
  /\ ~IsError(result)
  /\ Has(request.processId)
  /\ LET c == child[Get(request.processId).process]
     IN c.pid /\ c.handle /\ c.killed /\ c.exitCode = Null

\* C19: get-process-output and list-processes report isRunning = true for a
\* record only while the OS process of the record has not ended, whether it
\* ends by exiting with a code or by a signal.
C19_RunningMeansAlive ==
  LET listed == listProcesses(AnyTime) IN
  \A i \in 1..Len(runningProcesses) :
    LET r == getProcessOutput(runningProcesses[i].processId, AnyTime)
        c == child[runningProcesses[i].process]
    IN /\ listed.processes[i].isRunning => c.handle
       /\ (~IsError(r) /\ r.isRunning) => c.handle

\* the tools that start a process and store a record, and the others modelled
LaunchTools == {"create-react-app", "run-react-app", "install-package"}
OtherTools == {"get-process-output", "stop-process", "list-processes", "run-command"}

\* C20: the registry changes only in a step of a launch that returns an id,
\* and then by exactly one record added to the records it had, which stay as
\* they were; no step of get-process-output, stop-process, list-processes or
\* run-command changes it.
C20_OnlyLaunchesAddRecords ==
  [][ /\ runningProcesses' # runningProcesses =>
           /\ "tool" \in DOMAIN request'
           /\ request'.tool \in LaunchTools
           /\ "processId" \in DOMAIN result'
           /\ Len(runningProcesses') = Len(runningProcesses) + 1
           /\ SubSeq(runningProcesses', 1, Len(runningProcesses)) = runningProcesses
      /\ ("tool" \in DOMAIN request' /\ request'.tool \in OtherTools) =>
           runningProcesses' = runningProcesses
    ]_vars

====
